---- MODULE Spec2Model ----
(***************************************************************************)
(* The generate / parse / validate / refine loop of BioinfoMCP.             *)
(*                                                                         *)
(*   src/src/main.py, src/src/bioinfomcp_converter.py                      *)
(*       single-artifact flavour (one generated MCP server module)          *)
(*   src/src2/main.py, src/src2/skill_converter.py,                        *)
(*   src/src2/skill_validator.py                                           *)
(*       three-artifact flavour (SKILL.md, reference, example script)       *)
(*                                                                         *)
(* Text.  A Python str is modelled as a sequence of lines; each line is a   *)
(* TLA+ string that stands for that line followed by its newline.  The      *)
(* empty str is << >>.  The terminating newline of the last line of a text  *)
(* is not distinguished ("x = 1" and "x = 1\n" are the same text).  The     *)
(* regular expressions of the source are modelled by what they match on     *)
(* such a sequence of lines.                                                *)
(*                                                                         *)
(* Python values.  None is << >> and any other optional value v is <<v>>.   *)
(* A call either returns or raises: its outcome is a record whose field     *)
(* exc is "" for a normal return and the exception's name otherwise.        *)
(***************************************************************************)
EXTENDS Naturals, Sequences, FiniteSets

----------------------------------------------------------------------------
(* Lines *)

\* "===SKILL.md===", the delimiter of the guide document
SK == "===SKILL.md==="
\* "===REFERENCE.md===", the delimiter of the reference document
RF == "===REFERENCE.md==="
\* "===EXAMPLE_SCRIPT.py===", the delimiter of the example script
EX == "===EXAMPLE_SCRIPT.py==="
\* the line that ends with three backquotes and "python": it opens a code fence
FenceOpen == "[fence python]"
\* the line of three backquotes alone
Fence == "[fence]"
\* the empty line
WS == ""
\* a line of plain text
Prose == "some prose"
\* a Python statement
PyOk == "x = 1"
\* a Python statement that holds the text "@mcp.tool"
PyTool == "run = mcp.tool()(run)  # @mcp.tool()"
\* a Python line with an unmatched bracket
PyBad == "y = (1"
\* a Python line holding a lone surrogate code point, which cannot be encoded
\* to UTF-8: ast.parse raises UnicodeEncodeError on it, not SyntaxError
PySur == "s = '[U+D800]'"
\* a Python line holding a null byte: ast.parse raises a SyntaxError that
\* reports no location
PyNul == "z = '[NUL]'"
\* the frontmatter separator line "---"
Dash == "---"
\* a level-1 heading that is none of the required ones
RefHead == "# Parameters"
\* a line that starts with '#' and has no whitespace after it
HashTag == "#tag"

\* The twelve required section titles, in the order the validator checks them.
REQUIRED_SECTIONS ==
  <<
    "Overview",
    "When to Use This Skill",
    "Core Capabilities",
    "Installation and Setup",
    "Quick Start",
    "Standard Workflow",
    "Common Tasks",
    "Key Parameters",
    "Best Practices",
    "Common Pitfalls",
    "Additional Resources",
    "Bundled Resources"
  >>

\* Line i: the level-1 heading with exactly title i.
H1Line ==
  <<
    "# Overview",
    "# When to Use This Skill",
    "# Core Capabilities",
    "# Installation and Setup",
    "# Quick Start",
    "# Standard Workflow",
    "# Common Tasks",
    "# Key Parameters",
    "# Best Practices",
    "# Common Pitfalls",
    "# Additional Resources",
    "# Bundled Resources"
  >>

\* Line i: title i as a level-2 heading.
DeepLine ==
  <<
    "## Overview",
    "## When to Use This Skill",
    "## Core Capabilities",
    "## Installation and Setup",
    "## Quick Start",
    "## Standard Workflow",
    "## Common Tasks",
    "## Key Parameters",
    "## Best Practices",
    "## Common Pitfalls",
    "## Additional Resources",
    "## Bundled Resources"
  >>

\* Line i: a level-1 heading whose title only begins with title i.
LongLine ==
  <<
    "# Overview Notes",
    "# When to Use This Skill Notes",
    "# Core Capabilities Notes",
    "# Installation and Setup Notes",
    "# Quick Start Notes",
    "# Standard Workflow Notes",
    "# Common Tasks Notes",
    "# Key Parameters Notes",
    "# Best Practices Notes",
    "# Common Pitfalls Notes",
    "# Additional Resources Notes",
    "# Bundled Resources Notes"
  >>

\* Line i: a text line that mentions '# title i' in its middle.
InlineLine ==
  <<
    "see # Overview",
    "see # When to Use This Skill",
    "see # Core Capabilities",
    "see # Installation and Setup",
    "see # Quick Start",
    "see # Standard Workflow",
    "see # Common Tasks",
    "see # Key Parameters",
    "see # Best Practices",
    "see # Common Pitfalls",
    "see # Additional Resources",
    "see # Bundled Resources"
  >>

\* REQUIRED_FRONTMATTER_KEYS, in the order the validator checks them
REQUIRED_FRONTMATTER_KEYS == <<"name", "description", "license", "context", "metadata">>

\* Line k: a frontmatter line "key: value" for key k
KeyLine ==
  <<
    "name: tool",
    "description: text",
    "license: BSD",
    "context: fork",
    "metadata: {}"
  >>

\* Line k: a frontmatter line "other-key: value" whose key only ends with
\* key k, so that the text "key:" occurs in the line
AliasLine ==
  <<
    "nickname: tool",
    "longdescription: text",
    "sublicense: BSD",
    "subcontext: fork",
    "xmetadata: {}"
  >>

NSections == Len(REQUIRED_SECTIONS)
NKeys == Len(REQUIRED_FRONTMATTER_KEYS)
Range(s) == { s[i] : i \in DOMAIN s }

None == << >>
Some(v) == << v >>

----------------------------------------------------------------------------
(* str operations *)

\* the least index i >= from with s[i] \in lines, or 0 when there is none
Find(s, lines, from) ==
  LET hits == { i \in DOMAIN s : i >= from /\ s[i] \in lines }
  IN IF hits = {} THEN 0 ELSE CHOOSE i \in hits : \A j \in hits : i <= j

\* s[a..b], empty when a > b
Slice(s, a, b) == IF a > b THEN << >> ELSE SubSeq(s, a, b)

\* str.strip(): leading and trailing whitespace removed
Strip(s) ==
  LET keep == { i \in DOMAIN s : s[i] # WS }
  IN IF keep = {} THEN << >>
     ELSE LET a == CHOOSE i \in keep : \A j \in keep : i <= j
              b == CHOOSE i \in keep : \A j \in keep : j <= i
          IN SubSeq(s, a, b)

\* "not content or not content.strip()"
IsBlank(content) == content = << >> \/ Strip(content) = << >>

\* whether text sub occurs in text s (sub in s)
Contains(s, sub) ==
  \E i \in 0..Len(s) : i + Len(sub) <= Len(s) /\ SubSeq(s, i + 1, i + Len(sub)) = sub

\* the lines that contain three backquotes
FenceLines == {FenceOpen, Fence}

\* re.findall('```python\n(.*?)\n```', s, re.DOTALL): the first group, as an
\* optional value.  The opening line is the first FenceOpen; "\n```" is the
\* newline that ends some later line followed by a line that starts with
\* three backquotes, and the newline that ends the opening line is already
\* consumed, so the closing line is at least two lines below the opening.
\* The group is what lies between, less the newline the match consumed.
FirstCodeBlock(s) ==
  LET i == Find(s, {FenceOpen}, 1)
      j == IF i = 0 THEN 0 ELSE Find(s, FenceLines, i + 2)
  IN IF i = 0 \/ j = 0 THEN None
     ELSE IF s[j - 1] = WS THEN Some(Slice(s, i + 1, j - 2))
     ELSE Some(Slice(s, i + 1, j - 1))

----------------------------------------------------------------------------
(* Outcomes of calls *)

\* a validator's "return (ok, err)"
Verdict(ok, err) == [exc |-> "", ok |-> ok, err |-> err]
\* a parser's "return (ok, err, contents)"
Returned(ok, err, contents) == [exc |-> "", ok |-> ok, err |-> err, contents |-> contents]
\* an exception that leaves the call
Raised(e) == [exc |-> e, ok |-> 0, err |-> None, contents |-> None]
VerdictRaised(e) == [exc |-> e, ok |-> 0, err |-> None]

----------------------------------------------------------------------------
(* ast.parse *)

LineNo == <<"1", "2", "3", "4", "5", "6", "7", "8", "9", "10", "11", "12">>

\* the lines the Python grammar accepts: statements, blank lines, comments
\* (a Markdown heading is a comment) and annotations (a "key: value" line)
PyValidLines ==
  {PyOk, PyTool, PySur, WS, RefHead, HashTag} \cup Range(H1Line)
    \cup Range(DeepLine) \cup Range(LongLine) \cup Range(InlineLine)
    \cup Range(KeyLine) \cup Range(AliasLine)

\* ast.parse(code): "" when it returns, else the exception and its message.
\* The source is encoded to UTF-8 before it is parsed, so a lone surrogate
\* raises UnicodeEncodeError whatever else the code holds; next a null byte
\* anywhere is a SyntaxError without a location; otherwise a SyntaxError
\* reports the first line the grammar rejects.
ast_parse(code) ==
  LET bad == { i \in DOMAIN code : code[i] \notin PyValidLines }
  IN IF PySur \in Range(code)
       THEN [exc |-> "UnicodeEncodeError", msg |-> <<"surrogates not allowed">>]
     ELSE IF PyNul \in Range(code)
       THEN [exc |-> "SyntaxError",
             msg |-> <<"source code string cannot contain null bytes">>]
     ELSE IF bad # {}
       THEN LET l == CHOOSE i \in bad : \A j \in bad : i <= j
            IN [exc |-> "SyntaxError",
                msg |-> <<"invalid syntax (<unknown>, line ", LineNo[l], ")">>]
     ELSE [exc |-> "", msg |-> << >>]

----------------------------------------------------------------------------
(* skill_validator.py *)

\* re.match(r'^---\s*\n(.*?)\n---', content, re.DOTALL): group 1 as an
\* optional value.  The content must begin with a "---" line; the closing
\* "\n---" needs a newline of its own, so the closing line is the first
\* "---" line from the third line on.
FrontmatterMatch(content) ==
  LET j == Find(content, {Dash}, 3)
  IN IF Len(content) >= 1 /\ content[1] = Dash /\ j # 0
       THEN Some(Slice(content, 2, j - 1))
     ELSE None

\* f"{key}:" in frontmatter_text, for key k: the text occurs in some line,
\* wherever in the line
HasKey(frontmatter_text, k) ==
  \E n \in DOMAIN frontmatter_text :
     frontmatter_text[n] \in {KeyLine[k], AliasLine[k]}

\* re.search(rf'#\s+{re.escape(section)}', content) for section i: a '#',
\* whitespace and the title, anywhere in a line
SectionFound(content, i) ==
  \E n \in DOMAIN content :
     content[n] \in {H1Line[i], DeepLine[i], LongLine[i], InlineLine[i]}

\* the first index of the set m of missing indices, or 0: the for loops
\* return at the first miss
FirstMissing(m) ==
  IF m = {} THEN 0 ELSE CHOOSE i \in m : \A j \in m : i <= j

\* validate_skill_md with the headings checked before the frontmatter keys
validate_skill_md_sections_first(content) ==
  IF IsBlank(content) THEN Verdict(0, Some(<<"SKILL.md content is empty">>))
  ELSE LET fm_match == FrontmatterMatch(content) IN
  IF fm_match = None
    THEN Verdict(0, Some(<<"SKILL.md is missing YAML frontmatter (--- delimiters)">>))
  ELSE LET frontmatter_text == fm_match[1]
           key == FirstMissing({ k \in 1..NKeys :
                                  ~HasKey(frontmatter_text, k) })
           section == FirstMissing({ i \in 1..NSections :
                                      ~SectionFound(content, i) })
       IN
  IF section # 0
    THEN Verdict(0, Some(<<"SKILL.md is missing required section: '# ",
                           REQUIRED_SECTIONS[section], "'">>))
  ELSE IF key # 0
    THEN Verdict(0, Some(<<"YAML frontmatter is missing required key: ",
                           REQUIRED_FRONTMATTER_KEYS[key]>>))
  ELSE IF Range(content) \cap FenceLines = {}
    THEN Verdict(0, Some(<<"SKILL.md has no code blocks">>))
  ELSE Verdict(1, None)

validate_skill_md(content) ==
  IF IsBlank(content) THEN Verdict(0, Some(<<"SKILL.md content is empty">>))
  ELSE LET fm_match == FrontmatterMatch(content) IN
  IF fm_match = None
    THEN Verdict(0, Some(<<"SKILL.md is missing YAML frontmatter (--- delimiters)">>))
  ELSE LET frontmatter_text == fm_match[1]
           key == FirstMissing({ k \in 1..NKeys :
                                  ~HasKey(frontmatter_text, k) })
       IN
  IF key # 0
    THEN Verdict(0, Some(<<"YAML frontmatter is missing required key: ",
                           REQUIRED_FRONTMATTER_KEYS[key]>>))
  ELSE LET section == FirstMissing({ i \in 1..NSections :
                                      ~SectionFound(content, i) })
       IN
  IF section # 0
    THEN Verdict(0, Some(<<"SKILL.md is missing required section: '# ",
                           REQUIRED_SECTIONS[section], "'">>))
  ELSE IF Range(content) \cap FenceLines = {}
    THEN Verdict(0, Some(<<"SKILL.md has no code blocks">>))
  ELSE Verdict(1, None)

\* the lines that re.search(r'^#+\s+', content, re.MULTILINE) matches: a line
\* that starts with one or more '#' and then whitespace
HeaderLines ==
  {RefHead} \cup Range(H1Line) \cup Range(DeepLine) \cup Range(LongLine)

\* validate_reference_md with any '#' in the document taken for a header
validate_reference_md_any_hash(content) ==
  IF IsBlank(content) THEN Verdict(0, Some(<<"Reference document is empty">>))
  ELSE IF Range(content) \cap (HeaderLines \cup Range(InlineLine) \cup {HashTag}) = {}
    THEN Verdict(0, Some(<<"Reference document has no headers">>))
  ELSE Verdict(1, None)

validate_reference_md(content) ==
  IF IsBlank(content) THEN Verdict(0, Some(<<"Reference document is empty">>))
  ELSE IF Range(content) \cap HeaderLines = {}
    THEN Verdict(0, Some(<<"Reference document has no headers">>))
  ELSE Verdict(1, None)

\* validate_example_script with a diagnostic that leaves the parser's message
\* out
validate_example_script_plain_message(content) ==
  IF IsBlank(content) THEN Verdict(1, None)
  ELSE LET e == ast_parse(content) IN
  IF e.exc = "SyntaxError"
    THEN Verdict(0, Some(<<"Example script has SyntaxError">>))
  ELSE IF e.exc # "" THEN VerdictRaised(e.exc)
  ELSE Verdict(1, None)

\* validate_example_script with the empty script rejected
validate_example_script_rejects_empty(content) ==
  IF IsBlank(content) THEN Verdict(0, Some(<<"Example script is empty">>))
  ELSE LET e == ast_parse(content) IN
  IF e.exc = "SyntaxError"
    THEN Verdict(0, Some(<<"Example script has SyntaxError: ">> \o e.msg))
  ELSE IF e.exc # "" THEN VerdictRaised(e.exc)
  ELSE Verdict(1, None)

validate_example_script(content) ==
  IF IsBlank(content) THEN Verdict(1, None)
  ELSE LET e == ast_parse(content) IN
  IF e.exc = "SyntaxError"
    THEN Verdict(0, Some(<<"Example script has SyntaxError: ">> \o e.msg))
  ELSE IF e.exc # "" THEN VerdictRaised(e.exc)
  ELSE Verdict(1, None)

----------------------------------------------------------------------------
(* skill_converter.py: BioinfoSkillConverter *)

\* re.search(marker + '(.*?)(?:' + stop + '|$)', s, re.DOTALL).group(1): the
\* text after the first marker line, up to the first stop line that follows
\* it or, when there is none (or stop is empty), to the end; None when the
\* marker does not occur
Between(s, marker, stop) ==
  LET i == Find(s, {marker}, 1)
      j == IF i = 0 THEN 0 ELSE Find(s, stop, i + 1)
  IN IF i = 0 THEN None
     ELSE IF j = 0 THEN Some(Slice(s, i + 1, Len(s)))
     ELSE Some(Slice(s, i + 1, j - 1))

\* the contents dict of parse_skill
Contents(skill_md, reference_md, example_script) ==
  [skill_md |-> skill_md, reference_md |-> reference_md,
   example_script |-> example_script]

\* extract_skill with a fallback for a missing ===SKILL.md===: the whole
\* response is taken as the guide document
extract_skill_fallback(llm_response) ==
  LET skill_match == Between(llm_response, SK, {RF})
      ref_match == Between(llm_response, RF, {EX})
      script_match == Between(llm_response, EX, {})
      skill_md == IF skill_match # None THEN Strip(skill_match[1])
                  ELSE Strip(llm_response)
      reference_md == IF ref_match # None THEN Strip(ref_match[1]) ELSE << >>
      stripped == IF script_match # None THEN Strip(script_match[1]) ELSE << >>
      code_block == FirstCodeBlock(stripped)
      example_script == IF script_match # None /\ code_block # None
                          THEN code_block[1] ELSE stripped
  IN Contents(skill_md, reference_md, example_script)

\* lines 116-152 of parse_skill: the extraction of the three artifacts
extract_skill(llm_response) ==
  LET skill_match == Between(llm_response, SK, {RF})
      ref_match == Between(llm_response, RF, {EX})
      script_match == Between(llm_response, EX, {})
      skill_md == IF skill_match # None THEN Strip(skill_match[1]) ELSE << >>
      reference_md == IF ref_match # None THEN Strip(ref_match[1]) ELSE << >>
      stripped == IF script_match # None THEN Strip(script_match[1]) ELSE << >>
      code_block == FirstCodeBlock(stripped)
      example_script == IF script_match # None /\ code_block # None
                          THEN code_block[1] ELSE stripped
  IN Contents(skill_md, reference_md, example_script)

\* validate_contents with the reference document checked before the guide
validate_contents_reference_first(contents) ==
  LET v1 == validate_skill_md(contents.skill_md)
      v2 == validate_reference_md(contents.reference_md)
      v3 == validate_example_script(contents.example_script)
  IN IF v2.ok = 0
       THEN Returned(0, Some(<<"Reference validation failed: ">> \o v2.err[1]),
                     Some(contents))
     ELSE IF v1.ok = 0
       THEN Returned(0, Some(<<"SKILL.md validation failed: ">> \o v1.err[1]),
                     Some(contents))
     ELSE IF v3.exc # "" THEN Raised(v3.exc)
     ELSE IF v3.ok = 0
       THEN Returned(0, Some(<<"Example script validation failed: ">> \o v3.err[1]),
                     Some(contents))
     ELSE Returned(1, None, Some(contents))

\* validate_contents with no diagnostic for a failing reference document
validate_contents_silent_reference(contents) ==
  LET v1 == validate_skill_md(contents.skill_md)
      v2 == validate_reference_md(contents.reference_md)
      v3 == validate_example_script(contents.example_script)
  IN IF v1.ok = 0
       THEN Returned(0, Some(<<"SKILL.md validation failed: ">> \o v1.err[1]),
                     Some(contents))
     ELSE IF v2.ok = 0 THEN Returned(0, None, Some(contents))
     ELSE IF v3.exc # "" THEN Raised(v3.exc)
     ELSE IF v3.ok = 0
       THEN Returned(0, Some(<<"Example script validation failed: ">> \o v3.err[1]),
                     Some(contents))
     ELSE Returned(1, None, Some(contents))

\* lines 154-167 of parse_skill: the three validators, in order
validate_contents(contents) ==
  LET v1 == validate_skill_md(contents.skill_md)
      v2 == validate_reference_md(contents.reference_md)
      v3 == validate_example_script(contents.example_script)
  IN IF v1.ok = 0
       THEN Returned(0, Some(<<"SKILL.md validation failed: ">> \o v1.err[1]),
                     Some(contents))
     ELSE IF v2.ok = 0
       THEN Returned(0, Some(<<"Reference validation failed: ">> \o v2.err[1]),
                     Some(contents))
     ELSE IF v3.exc # "" THEN Raised(v3.exc)
     ELSE IF v3.ok = 0
       THEN Returned(0, Some(<<"Example script validation failed: ">> \o v3.err[1]),
                     Some(contents))
     ELSE Returned(1, None, Some(contents))

parse_skill(llm_response) == validate_contents(extract_skill(llm_response))

\* how an f-string renders a value that may be None
Fmt(opt) == IF opt = None THEN <<"None">> ELSE opt[1]

\* BioinfoSkillConverter.generate_prompt
skill_generate_prompt(tool_name, help_docs) ==
  <<"Convert the following bioinformatics tool documentation into a Claude Scientific Skill package.",
    "Tool Name: ", tool_name, "Help Document:">>
  \o Fmt(help_docs)
  \o <<"Generate the complete skill package with all three blocks:">>

\* skill_refine_prompt without the reference block
skill_refine_prompt_no_reference(tool_name, contents, error_message) ==
  LET existing ==
        (IF contents.skill_md # << >>
           THEN <<SK>> \o contents.skill_md \o <<WS>> ELSE << >>)
        \o (IF contents.example_script # << >>
              THEN <<EX, FenceOpen>> \o contents.example_script \o <<Fence>>
              ELSE << >>)
  IN <<"The initial skill package for ", tool_name, ":">>
     \o existing
     \o <<"contains the following error:">>
     \o Fmt(error_message)
     \o <<"Please fix the content and ensure that:",
          "Provide the corrected output with all three blocks">>

\* "existing" of refine_after_feedback (lines 171-177): a delimiter and the
\* text for every artifact that is not empty, the script in a code fence
existing_block(contents) ==
  (IF contents.skill_md # << >>
     THEN <<SK>> \o contents.skill_md \o <<WS>> ELSE << >>)
  \o (IF contents.reference_md # << >>
        THEN <<RF>> \o contents.reference_md \o <<WS>> ELSE << >>)
  \o (IF contents.example_script # << >>
        THEN <<EX, FenceOpen>> \o contents.example_script \o <<Fence>>
        ELSE << >>)

\* the prompt refine_after_feedback builds (lines 171-195)
skill_refine_prompt(tool_name, contents, error_message) ==
  <<"The initial skill package for ", tool_name, ":">>
     \o existing_block(contents)
     \o <<"contains the following error:">>
     \o Fmt(error_message)
     \o <<"Please fix the content and ensure that:",
          "Provide the corrected output with all three blocks">>

----------------------------------------------------------------------------
(* bioinfomcp_converter.py: BioinfoMCP *)

\* parse_mcpcode without the test for the marker
parse_mcpcode_no_marker_test(gpt_response) ==
  LET code_block == FirstCodeBlock(gpt_response) IN
  IF code_block = None
    THEN Returned(0, Some(<<"There is no python code found in the gpt_response">>), None)
  ELSE LET code == code_block[1]
           e == ast_parse(code)
       IN
  IF e.exc = "SyntaxError"
    THEN Returned(0, Some(<<"Code is not working with the following SyntaxError: ">> \o e.msg),
                  Some(code))
  ELSE IF e.exc # "" THEN Raised(e.exc)
  ELSE Returned(1, None, Some(code))

parse_mcpcode(gpt_response) ==
  LET code_block == FirstCodeBlock(gpt_response) IN
  IF code_block = None
    THEN Returned(0, Some(<<"There is no python code found in the gpt_response">>), None)
  ELSE LET code == code_block[1]
           e == ast_parse(code)
       IN
  IF e.exc = "SyntaxError"
    THEN Returned(0, Some(<<"Code is not working with the following SyntaxError: ">> \o e.msg),
                  Some(code))
  ELSE IF e.exc # "" THEN Raised(e.exc)
  ELSE IF PyTool \notin Range(code)
    THEN Returned(0, Some(<<"Code is missing the @mcp.tool() decorator">>), Some(code))
  ELSE Returned(1, None, Some(code))

\* BioinfoMCP.generate_prompt
mcp_generate_prompt(tool_name, help_docs) ==
  <<"Convert the following bioinformatics tool into an MCP tool definition.",
    "Tool Name: ", tool_name, "Help Document:">>
  \o Fmt(help_docs)
  \o <<"Parse the Input parameters correctly, follow the MCP best practices">>

\* the prompt refine_after_feedback builds (lines 128-145)
mcp_refine_prompt(tool_name, code, error_message) ==
  <<"The initial code block for ", tool_name, ":", FenceOpen>>
  \o code
  \o <<Fence, "contains the following Error:">>
  \o Fmt(error_message)
  \o <<"Please fix the code and ensure that", "Provide only the corrected python code.">>

----------------------------------------------------------------------------
(* The conversions: convert_mcptool (src/main.py) and convert_skill         *)
(* (src2/main.py), one conversion request per behaviour                     *)

VARIABLES
  flavour,           \* "mcptool" (convert_mcptool) or "skill" (convert_skill)
  run_help_command,  \* the argument of that name
  pc,                \* where the conversion is: "start", "generating" (a
                     \* request is with the backend), "loop" (its completion
                     \* is parsed; at the test of the while loop),
                     \* "returned" (convert_skill has returned), "done",
                     \* "raised" (an exception has left the conversion)
  request,           \* None, or the request that is with the backend
  completion,        \* None, or the completion the last request got
  result,            \* the variable result / conv_result
  diags,             \* the error message of every attempt parsed so far
  returned,          \* None, or what convert_skill has returned
  files,             \* the files written: a set of [path, content]
  exc,               \* "" or the exception that has left the conversion
  fn, arg, out,      \* a single call of one function: its name, its
                     \* argument, and None or its outcome
  log                \* what the conversion has done so far, in order: the
                     \* requests sent, the responses received, the verdicts
                     \* of the parser, the exceptions raised

vars == <<flavour, run_help_command, pc, request, completion, result, diags,
          returned, files, exc, fn, arg, out, log>>

\* the most backend requests one conversion sends in the model
MaxAttempts == 3

tool_name == "fastqc"

\* what extract_help_document can return: the text of the manual, or with
\* run_help_command the tool's help output, or None when the tool is missing
\* or its help command fails
HelpDocs(help) ==
  IF help THEN {Some(<<"usage: fastqc [options]">>), None}
  ELSE {Some(<<"FastQC manual">>)}

\* a request to client.chat.completions.create, and the method that sent it
Request(method, prompt) ==
  [method |-> method, system |-> "system_prompt.txt", prompt |-> prompt]

\* the guide document that meets every requirement
ValidGuide ==
  <<Dash>> \o KeyLine \o <<Dash>> \o H1Line \o <<FenceOpen, PyOk, Fence>>

\* s without its line at index i
Without(s, i) == Slice(s, 1, i - 1) \o Slice(s, i + 1, Len(s))

\* the completions the backend returns in the model, skill flavour: prose
\* without any delimiter, or three blocks of which each is absent, a bare
\* delimiter, or a delimiter and a document
GuideBlocks ==
  { << >>, <<SK>>, <<SK, WS>> \o ValidGuide,
    <<SK>> \o Without(ValidGuide, 6), <<SK>> \o Without(ValidGuide, 16) }
ReferenceBlocks ==
  { << >>, <<RF>>, <<RF, RefHead, Prose, WS>>, <<RF, Prose>> }
ScriptBlocks ==
  { << >>, <<EX>>, <<EX, PyOk>>, <<EX, FenceOpen, PyOk, Fence>>,
    <<EX, PyBad>>, <<EX, FenceOpen, PyOk, PySur, Fence>>,
    <<EX, FenceOpen, WS, WS, Fence>>, <<EX, FenceOpen, PyOk, Fence, Prose>> }
\* the script blocks that go with every guide and reference block
PlainScriptBlocks == { << >>, <<EX, PyOk>>, <<EX, PyBad>> }
\* the guide and reference blocks that go with every script block: the valid
\* documents and the bare delimiters
PlainGuideBlocks == { <<SK>>, <<SK, WS>> \o ValidGuide }
PlainReferenceBlocks == { <<RF>>, <<RF, RefHead, Prose, WS>> }
SkillCompletions ==
  { <<Prose, WS>> } \cup
  { g \o r \o s :
      g \in GuideBlocks, r \in ReferenceBlocks, s \in PlainScriptBlocks } \cup
  { g \o r \o s :
      g \in PlainGuideBlocks, r \in PlainReferenceBlocks, s \in ScriptBlocks }

\* the longest code block of a completion in the model, mcptool flavour
MaxCode == 1

SeqsUpTo(S, n) == UNION { [1..k -> S] : k \in 0..n }

\* the completions the backend returns in the model, mcptool flavour: no code
\* fence at all, or prose, a fence with at most MaxCode lines, and prose
McpCompletions ==
  { <<Prose>> } \cup
  { <<Prose, FenceOpen>> \o code \o <<Fence, Prose>> :
      code \in SeqsUpTo({PyOk, PyTool, PyBad, PySur, WS}, MaxCode) }

NoResult == Returned(0, None, None)

\* the entries of log: client.chat.completions.create is called by a method
\* (for an initial prompt, with the help document that extract_help_document
\* returned for it), it returns a response, the parser returns a verdict, or
\* an exception leaves the conversion
Sent(method, docs) == [ev |-> "request", method |-> method, docs |-> docs, ok |-> 0]
Received == [ev |-> "response", method |-> "", docs |-> << >>, ok |-> 0]
Judged(ok) == [ev |-> "verdict", method |-> "", docs |-> << >>, ok |-> ok]
Aborted == [ev |-> "raise", method |-> "", docs |-> << >>, ok |-> 0]

Init ==
  /\ flavour \in {"mcptool", "skill"}
  /\ run_help_command \in BOOLEAN
  /\ pc = "start"
  /\ request = None
  /\ completion = None
  /\ result = NoResult
  /\ diags = << >>
  /\ returned = None
  /\ files = {}
  /\ exc = ""
  /\ fn = "" /\ arg = << >> /\ out = None
  /\ log = << >>

\* the first half of autogenerate_skill / autogenerate_mcp_tool: extract the
\* help document, build the prompt, send it
SendInitial ==
  \E help_docs \in HelpDocs(run_help_command) :
    LET req == IF flavour = "skill"
                 THEN Request("autogenerate_skill",
                              skill_generate_prompt(tool_name, help_docs))
                 ELSE Request("autogenerate_mcp_tool",
                              mcp_generate_prompt(tool_name, help_docs))
    IN /\ request' = Some(req)
       /\ log' = Append(log, Sent(req.method, Some(help_docs)))

\* SendRefine with the error message of the first attempt
SendRefineFirstError ==
  LET req == IF flavour = "skill"
               THEN Request("refine_after_feedback",
                            skill_refine_prompt(tool_name, result.contents[1], diags[1]))
               ELSE Request("refine_after_feedback",
                            mcp_refine_prompt(tool_name, result.contents[1], diags[1]))
  IN /\ request' = Some(req)
     /\ log' = Append(log, Sent(req.method, None))

\* the first half of refine_after_feedback: build the prompt, send it
SendRefine ==
  LET req == IF flavour = "skill"
               THEN Request("refine_after_feedback",
                            skill_refine_prompt(tool_name, result.contents[1], result.err))
               ELSE Request("refine_after_feedback",
                            mcp_refine_prompt(tool_name, result.contents[1], result.err))
  IN /\ request' = Some(req)
     /\ log' = Append(log, Sent(req.method, None))

\* Start that gives the conversion up when the extraction has returned None
StartNeedsDocument ==
  /\ pc = "start"
  /\ \E help_docs \in HelpDocs(run_help_command) :
       IF help_docs = None
         THEN /\ pc' = "raised"
              /\ exc' = "ValueError"
              /\ log' = Append(log, Aborted)
              /\ UNCHANGED request
         ELSE LET req == IF flavour = "skill"
                           THEN Request("autogenerate_skill",
                                        skill_generate_prompt(tool_name, help_docs))
                           ELSE Request("autogenerate_mcp_tool",
                                        mcp_generate_prompt(tool_name, help_docs))
              IN /\ pc' = "generating"
                 /\ request' = Some(req)
                 /\ log' = Append(log, Sent(req.method, Some(help_docs)))
                 /\ UNCHANGED exc
  /\ UNCHANGED <<flavour, run_help_command, completion, result, diags, returned,
                 files, fn, arg, out>>

\* convert_skill line 12, convert_mcptool line 76
Start ==
  /\ pc = "start"
  /\ SendInitial
  /\ pc' = "generating"
  /\ UNCHANGED <<flavour, run_help_command, completion, result, diags, returned,
                 files, exc, fn, arg, out>>

\* what the parser makes of each completion of the model
ParsedSkill == [c \in SkillCompletions |-> parse_skill(c)]
ParsedMcp == [c \in McpCompletions |-> parse_mcpcode(c)]

\* the second half of autogenerate_* / refine_after_feedback:
\* client.chat.completions.create returns a completion, the parser parses and
\* validates it, and what the parser returns is assigned to result; an
\* exception of the parser leaves the conversion
BackendReturns ==
  /\ pc = "generating"
  /\ \E c \in (IF flavour = "skill" THEN SkillCompletions ELSE McpCompletions) :
       LET r == IF flavour = "skill" THEN ParsedSkill[c] ELSE ParsedMcp[c]
       IN /\ completion' = Some(c)
          /\ request' = None
          /\ IF r.exc # ""
               THEN /\ pc' = "raised"
                    /\ exc' = r.exc
                    /\ log' = log \o <<Received, Aborted>>
                    /\ UNCHANGED <<result, diags>>
               ELSE /\ pc' = "loop"
                    /\ result' = r
                    /\ diags' = Append(diags, r.err)
                    /\ log' = log \o <<Received, Judged(r.ok)>>
                    /\ UNCHANGED exc
  /\ UNCHANGED <<flavour, run_help_command, returned, files, fn, arg, out>>

\* BackendRaises with the exception caught by the loop, which goes on
BackendRaisesCaught ==
  /\ pc = "generating"
  /\ pc' = "loop"
  /\ exc' = "APIError"
  /\ log' = Append(log, Aborted)
  /\ UNCHANGED <<flavour, run_help_command, request, completion, result, diags,
                 returned, files, fn, arg, out>>

\* client.chat.completions.create raises; nothing catches it
BackendRaises ==
  /\ pc = "generating"
  /\ pc' = "raised"
  /\ exc' = "APIError"
  /\ log' = Append(log, Aborted)
  /\ UNCHANGED <<flavour, run_help_command, request, completion, result, diags,
                 returned, files, fn, arg, out>>

\* the loop test on the wrong element, "while not result[2]"
LoopTestsContents(r) == r.contents = None

\* the loop test with a bound of two attempts
LoopContinuesTwice(r) == r.ok = 0 /\ Len(diags) < 2

\* "while not result[0]" / "while not conv_result[0]": whether the loop goes on
LoopContinues(r) == r.ok = 0

\* the test of convert_mcptool, "result[2] is None", in convert_skill
SkillNoContentIsNone(r) == r.contents = None

\* convert_skill line 15: "result[2] is None or not any(result[2].values())"
SkillNoContent(r) ==
  \/ r.contents = None
  \/ ~ \/ r.contents[1].skill_md # << >>
       \/ r.contents[1].reference_md # << >>
       \/ r.contents[1].example_script # << >>

\* convert_mcptool line 78: "conv_result[2] is None"
McpNoCode(r) == r.contents = None

NoContent(r) == IF flavour = "skill" THEN SkillNoContent(r) ELSE McpNoCode(r)

\* lines 16-18 of convert_skill, lines 79-81 of convert_mcptool: generate anew
Restart ==
  /\ pc = "loop"
  /\ LoopContinues(result)
  /\ NoContent(result)
  /\ Len(diags) < MaxAttempts
  /\ SendInitial
  /\ pc' = "generating"
  /\ UNCHANGED <<flavour, run_help_command, completion, result, diags, returned,
                 files, exc, fn, arg, out>>

\* Refine without waiting for the completion of the request in flight
RefineWithoutWaiting ==
  /\ pc \in {"loop", "generating"}
  /\ LoopContinues(result)
  /\ ~NoContent(result)
  /\ Len(diags) < MaxAttempts
  /\ SendRefine
  /\ pc' = "generating"
  /\ UNCHANGED <<flavour, run_help_command, completion, result, diags, returned,
                 files, exc, fn, arg, out>>

\* lines 20-24 of convert_skill, lines 83-84 of convert_mcptool: refine
Refine ==
  /\ pc = "loop"
  /\ LoopContinues(result)
  /\ ~NoContent(result)
  /\ Len(diags) < MaxAttempts
  /\ SendRefine
  /\ pc' = "generating"
  /\ UNCHANGED <<flavour, run_help_command, completion, result, diags, returned,
                 files, exc, fn, arg, out>>

File(path, content) == [path |-> path, content |-> content]

\* convert_skill line 26: "return result[2]"
SkillReturn ==
  /\ flavour = "skill"
  /\ pc = "loop"
  /\ ~LoopContinues(result)
  /\ returned' = result.contents
  /\ pc' = "returned"
  /\ UNCHANGED <<flavour, run_help_command, request, completion, result, diags,
                 files, exc, fn, arg, out, log>>

\* SkillFiles with the example script written whenever it is not the empty
\* text
SkillFilesNonEmptyScript(contents) ==
  { File("SKILL.md", contents.skill_md),
    File("references/fastqc_reference.md", contents.reference_md) }
  \cup (IF contents.example_script # << >>
          THEN { File("scripts/fastqc_example.py", contents.example_script) }
          ELSE {})

\* the files write_skill_files writes for contents
SkillFiles(contents) ==
  { File("SKILL.md", contents.skill_md),
    File("references/fastqc_reference.md", contents.reference_md) }
  \cup (IF ~IsBlank(contents.example_script)
          THEN { File("scripts/fastqc_example.py", contents.example_script) }
          ELSE {})

\* src2/main.py line 93: write_skill_files(args.name, contents, ...)
write_skill_files ==
  /\ pc = "returned"
  /\ files' = files \cup SkillFiles(returned[1])
  /\ pc' = "done"
  /\ UNCHANGED <<flavour, run_help_command, request, completion, result, diags,
                 returned, exc, fn, arg, out, log>>

\* McpWrite inside the loop: the server module is written after every attempt
\* that has code
McpWriteEveryAttempt ==
  /\ flavour = "mcptool"
  /\ pc = "loop"
  /\ result.contents # None
  /\ files' = files \cup { File("app/fastqc_server.py", result.contents[1]) }
  /\ pc' = IF LoopContinues(result) THEN "loop" ELSE "done"
  /\ UNCHANGED <<flavour, run_help_command, request, completion, result, diags,
                 returned, exc, fn, arg, out, log>>

\* convert_mcptool lines 85-86: write conv_result[2] to the server module
McpWrite ==
  /\ flavour = "mcptool"
  /\ pc = "loop"
  /\ ~LoopContinues(result)
  /\ files' = files \cup { File("app/fastqc_server.py", result.contents[1]) }
  /\ pc' = "done"
  /\ UNCHANGED <<flavour, run_help_command, request, completion, result, diags,
                 returned, exc, fn, arg, out, log>>

Next ==
  \/ Start
  \/ BackendReturns
  \/ BackendRaises
  \/ Restart
  \/ Refine
  \/ SkillReturn
  \/ write_skill_files
  \/ McpWrite

Spec == Init /\ [][Next]_vars

\* The conversion is a sequential program: each of its own steps is taken
\* when it is enabled.  Nothing is assumed of the backend.
FairSpec ==
  /\ Spec
  /\ WF_vars(Start)
  /\ WF_vars(Restart)
  /\ WF_vars(Refine)
  /\ WF_vars(SkillReturn)
  /\ WF_vars(write_skill_files)
  /\ WF_vars(McpWrite)

----------------------------------------------------------------------------
(* Single calls of the parsers and validators, on every text of a bounded   *)
(* set                                                                      *)

\* the longest text given to a parser or to a validator of short texts
MaxLen == 4
\* the most lines of ValidGuide that a guide document given to
\* validate_skill_md has replaced or removed
MaxEdits == 2

\* what may stand in the place of line p of ValidGuide: nothing, prose, or
\* for a heading its title at a deeper level, in a longer heading, or in the
\* middle of a line, and for a frontmatter key a longer key that ends with it
Alternatives(p) ==
  LET line == ValidGuide[p]
      i == p - (NKeys + 2)
  IN IF i \in 1..NSections
       THEN { << >>, <<DeepLine[i]>>, <<LongLine[i]>>, <<InlineLine[i]>> }
     ELSE IF p - 1 \in 1..NKeys
       THEN { << >>, <<Prose>>, <<AliasLine[p - 1]>> }
     ELSE IF line \in {FenceOpen, Fence, PyOk} THEN { << >>, <<WS>> }
     ELSE { << >>, <<Prose>> }

\* the texts of a sequence of texts, joined
RECURSIVE Join(_)
Join(parts) == IF parts = << >> THEN << >> ELSE Head(parts) \o Join(Tail(parts))

\* an edit <<p, a>> puts the text a in the place of line p of ValidGuide
Edits == UNION { { <<p, a>> : a \in Alternatives(p) } : p \in DOMAIN ValidGuide }

\* at most MaxEdits edits, of different lines
EditLists ==
  { e \in SeqsUpTo(Edits, MaxEdits) :
      \A k \in 1..(Len(e) - 1) : e[k][1] < e[k + 1][1] }

\* ValidGuide with the edits of e made
ApplyEdits(e) ==
  Join([p \in DOMAIN ValidGuide |->
          IF \E k \in DOMAIN e : e[k][1] = p
            THEN e[CHOOSE k \in DOMAIN e : e[k][1] = p][2]
            ELSE <<ValidGuide[p]>>])

GuideDocs == { ApplyEdits(e) : e \in EditLists } \cup { << >>, <<WS>> }

ParserLines == {SK, RF, EX, FenceOpen, Fence, WS, PyOk, PyBad}
McpLines == {FenceOpen, Fence, WS, PyOk, PyTool, PyBad, PySur, PyNul}
ScriptLines == {Fence, WS, PyOk, PyBad, PySur, PyNul}
ReferenceLines == {WS, Prose, RefHead, DeepLine[1], InlineLine[1], HashTag}

\* artifacts as a parse leaves them, trimmed, without a delimiter and without
\* a code fence, each of them empty or not
TrimmedArtifactSets ==
  { Contents(g, r, s) :
      g \in { << >>, <<Prose>>, <<RefHead, WS, Prose>> },
      r \in { << >>, <<RefHead, Prose>> },
      s \in { << >>, <<PyOk>>, <<PyOk, WS, PyBad>> } }

Functions ==
  {"validate_skill_md", "validate_reference_md", "validate_example_script",
   "extract_skill", "parse_skill", "parse_mcpcode"}

\* the texts each function is called on
Args(f) ==
  CASE f = "validate_skill_md" -> GuideDocs
    [] f = "validate_reference_md" -> SeqsUpTo(ReferenceLines, MaxLen)
    [] f = "validate_example_script" -> SeqsUpTo(ScriptLines, MaxLen)
    [] f = "extract_skill" -> SeqsUpTo(ParserLines, MaxLen)
    [] f = "parse_skill" ->
         SkillCompletions \cup { existing_block(A) : A \in TrimmedArtifactSets }
    [] f = "parse_mcpcode" -> SeqsUpTo(McpLines, MaxLen)

InitCalls ==
  /\ flavour = "skill"
  /\ run_help_command = FALSE
  /\ pc = "start"
  /\ request = None
  /\ completion = None
  /\ result = NoResult
  /\ diags = << >>
  /\ returned = None
  /\ files = {}
  /\ exc = ""
  /\ fn \in Functions
  /\ arg \in Args(fn)
  /\ out = None
  /\ log = << >>

Idle ==
  UNCHANGED <<flavour, run_help_command, pc, request, completion, result, diags,
              returned, files, exc, fn, arg, log>>

CallValidateSkillMd ==
  /\ fn = "validate_skill_md" /\ out = None
  /\ out' = Some(validate_skill_md(arg))
  /\ Idle

CallValidateReferenceMd ==
  /\ fn = "validate_reference_md" /\ out = None
  /\ out' = Some(validate_reference_md(arg))
  /\ Idle

CallValidateExampleScript ==
  /\ fn = "validate_example_script" /\ out = None
  /\ out' = Some(validate_example_script(arg))
  /\ Idle

CallExtractSkill ==
  /\ fn = "extract_skill" /\ out = None
  /\ out' = Some(extract_skill(arg))
  /\ Idle

CallParseSkill ==
  /\ fn = "parse_skill" /\ out = None
  /\ out' = Some(parse_skill(arg))
  /\ Idle

CallParseMcpcode ==
  /\ fn = "parse_mcpcode" /\ out = None
  /\ out' = Some(parse_mcpcode(arg))
  /\ Idle

NextCalls ==
  \/ CallValidateSkillMd
  \/ CallValidateReferenceMd
  \/ CallValidateExampleScript
  \/ CallExtractSkill
  \/ CallParseSkill
  \/ CallParseMcpcode

SpecCalls == InitCalls /\ [][NextCalls]_vars

----------------------------------------------------------------------------
(* Properties of the conversions (under Spec)                               *)

Last(s) == s[Len(s)]

\* what the parser makes of the completion that arrived last
LatestParse ==
  IF flavour = "skill" THEN ParsedSkill[completion[1]] ELSE ParsedMcp[completion[1]]

SkillAllEmpty(contents) ==
  /\ contents.skill_md = << >>
  /\ contents.reference_md = << >>
  /\ contents.example_script = << >>

\* r holds an artifact that is not the empty text
SomeArtifactNonEmpty(r) ==
  IF flavour = "skill" THEN ~SkillAllEmpty(r.contents[1])
  ELSE r.contents # None /\ r.contents[1] # << >>

InitialPrompts ==
  IF flavour = "skill"
    THEN { Request("autogenerate_skill", skill_generate_prompt(tool_name, d)) :
             d \in HelpDocs(run_help_command) }
    ELSE { Request("autogenerate_mcp_tool", mcp_generate_prompt(tool_name, d)) :
             d \in HelpDocs(run_help_command) }

\* C1: in both flavours the loop is left only when the verdict of the latest
\* attempt is ok, and what is returned (convert_skill) or written
\* (convert_mcptool, write_skill_files) is the artifact set the parser made of
\* the completion that arrived last.
C1_ExitOnlyOnLatestOk ==
  pc \in {"returned", "done"} =>
    /\ completion # None
    /\ LatestParse.exc = ""
    /\ LatestParse.ok = 1
    /\ result = LatestParse
    /\ Last(diags) = None
    /\ flavour = "skill" =>
         /\ returned = LatestParse.contents
         /\ pc = "done" => files = SkillFiles(LatestParse.contents[1])
    /\ flavour = "mcptool" =>
         files = { File("app/fastqc_server.py", LatestParse.contents[1]) }

\* a conversion that is done after an attempt that failed
C1_Witness == pc = "done" /\ Len(diags) >= 2 /\ diags[1] # None

\* C2: convert_skill: after an attempt whose verdict fails and whose three
\* artifacts are all empty, the request sent next is the initial prompt of
\* autogenerate_skill, not a repair prompt.
C2_AllEmptyRestarts ==
  ( /\ flavour = "skill"
    /\ pc = "generating"
    /\ diags # << >>
    /\ LatestParse.ok = 0
    /\ SkillAllEmpty(LatestParse.contents[1]) )
  => /\ request # None
     /\ request[1] \in InitialPrompts
     /\ request[1].method = "autogenerate_skill"

\* the request after a completion without any delimiter
C2_Witness ==
  /\ flavour = "skill"
  /\ pc = "generating"
  /\ completion = Some(<<Prose, WS>>)
  /\ request[1].method = "autogenerate_skill"

\* C3: convert_mcptool: after an attempt whose verdict fails and whose source
\* module is empty (no code extracted, or the extracted code is the empty
\* text), the request sent next is the initial prompt of
\* autogenerate_mcp_tool, not a repair prompt.
C3_EmptyCodeRestarts ==
  ( /\ flavour = "mcptool"
    /\ pc = "generating"
    /\ diags # << >>
    /\ LatestParse.ok = 0
    /\ (LatestParse.contents = None \/ LatestParse.contents = Some(<< >>)) )
  => request[1].method = "autogenerate_mcp_tool"

\* C4: after an attempt whose verdict fails and that has a non-empty
\* artifact, the request sent next is the repair prompt that
\* refine_after_feedback builds from the artifacts and the diagnostic of that
\* attempt.
C4_NonEmptyRefines ==
  ( /\ pc = "generating"
    /\ diags # << >>
    /\ LatestParse.ok = 0
    /\ SomeArtifactNonEmpty(LatestParse) )
  => /\ request # None
     /\ LatestParse.err = Last(diags)
     /\ request[1] =
          Request("refine_after_feedback",
                  IF flavour = "skill"
                    THEN skill_refine_prompt(tool_name, LatestParse.contents[1], Last(diags))
                    ELSE mcp_refine_prompt(tool_name, LatestParse.contents[1], Last(diags)))

\* a repair prompt after two attempts that failed differently
C4_Witness ==
  /\ pc = "generating"
  /\ Len(diags) >= 2
  /\ diags[1] # Last(diags)
  /\ request[1].method = "refine_after_feedback"
  /\ SomeArtifactNonEmpty(LatestParse)

\* the first part of every error message a parser returns
DiagHeads ==
  {"SKILL.md validation failed: ", "Reference validation failed: ",
   "Example script validation failed: ",
   "There is no python code found in the gpt_response",
   "Code is not working with the following SyntaxError: ",
   "Code is missing the @mcp.tool() decorator"}

\* the artifacts of the latest attempt
LatestArtifacts ==
  IF flavour = "skill"
    THEN { result.contents[1].skill_md, result.contents[1].reference_md,
           result.contents[1].example_script }
    ELSE { result.contents[1] }

\* C5: every repair prompt contains the text of every artifact of the latest
\* artifact set and exactly one diagnostic, that of the latest attempt; a
\* different diagnostic of an earlier attempt does not occur in it.
C5_RepairPromptContents ==
  ( /\ pc = "generating"
    /\ request # None
    /\ request[1].method = "refine_after_feedback" )
  => LET prompt == request[1].prompt
     IN /\ result = LatestParse
        /\ \A a \in LatestArtifacts : Contains(prompt, a)
        /\ Last(diags) # None
        /\ Contains(prompt, Last(diags)[1])
        /\ Cardinality({ i \in DOMAIN prompt : prompt[i] \in DiagHeads }) = 1
        /\ \A k \in 1..(Len(diags) - 1) :
             diags[k] # Last(diags) => ~Contains(prompt, diags[k][1])

\* a repair prompt for a set whose guide document is valid and whose
\* reference document is not, after an attempt that failed differently
C5_Witness ==
  /\ flavour = "skill"
  /\ pc = "generating"
  /\ request # None
  /\ request[1].method = "refine_after_feedback"
  /\ validate_skill_md(result.contents[1].skill_md).ok = 1
  /\ result.contents[1].reference_md # << >>
  /\ Len(diags) >= 2
  /\ diags[1] # Last(diags)

\* C9: parse_skill checks skill_md, reference_md, example_script in this
\* order and stops at the first that fails: the diagnostic is that of the
\* first failing artifact, whatever the later ones hold, and the verdict is
\* ok exactly when all three checks pass.
C9_FirstFailureDecides ==
  (flavour = "skill" /\ completion # None) =>
    LET contents == extract_skill(completion[1])
        v1 == validate_skill_md(contents.skill_md)
        v2 == validate_reference_md(contents.reference_md)
        v3 == validate_example_script(contents.example_script)
    IN IF pc = "raised" /\ exc # "APIError"
         THEN v1.ok = 1 /\ v2.ok = 1
         ELSE /\ result.contents = Some(contents)
              /\ v1.ok = 0 =>
                   /\ result.ok = 0
                   /\ result.err = Some(<<"SKILL.md validation failed: ">> \o v1.err[1])
              /\ (v1.ok = 1 /\ v2.ok = 0) =>
                   /\ result.ok = 0
                   /\ result.err = Some(<<"Reference validation failed: ">> \o v2.err[1])
              /\ (v1.ok = 1 /\ v2.ok = 1 /\ v3.ok = 0) =>
                   /\ result.ok = 0
                   /\ result.err =
                        Some(<<"Example script validation failed: ">> \o v3.err[1])
              /\ result.ok = 1 <=> (v1.ok = 1 /\ v2.ok = 1 /\ v3.exc = "" /\ v3.ok = 1)

\* a verdict on a set whose three artifacts all fail their checks, the last
\* one with an exception
C9_Witness ==
  /\ flavour = "skill"
  /\ pc = "loop"
  /\ result.ok = 0
  /\ validate_skill_md(result.contents[1].skill_md).ok = 0
  /\ validate_reference_md(result.contents[1].reference_md).ok = 0
  /\ validate_example_script(result.contents[1].example_script).exc # ""

----------------------------------------------------------------------------
(* Properties of single calls (under SpecCalls)                             *)

ArtifactNames == {"skill_md", "reference_md", "example_script"}

C7_ValidationNeverRaises ==
  (out # None /\ fn # "extract_skill") => out[1].exc = ""

\* every requirement of validate_skill_md but the headings
MeetsOtherRequirements(content) ==
  /\ ~IsBlank(content)
  /\ FrontmatterMatch(content) # None
  /\ \A k \in 1..NKeys : HasKey(FrontmatterMatch(content)[1], k)
  /\ FirstCodeBlock(content) # None

\* C10: a guide document that meets every other requirement and lacks
\* exactly one required level-1 heading fails validate_skill_md with a
\* diagnostic that names the heading.
C10_MissingHeadingNamed ==
  (fn = "validate_skill_md" /\ out # None) =>
    LET lacking == { i \in 1..NSections : H1Line[i] \notin Range(arg) }
    IN (Cardinality(lacking) = 1 /\ MeetsOtherRequirements(arg)) =>
         /\ out[1].ok = 0
         /\ \E i \in lacking : REQUIRED_SECTIONS[i] \in Range(out[1].err[1])

\* C11: validate_skill_md accepts a guide document only if each of the twelve
\* required titles occurs in it as a level-1 heading line with exactly that
\* title; the title at a deeper level, at the beginning of a longer heading
\* or in the middle of a line does not count.
C11_OnlyExactLevel1Headings ==
  (fn = "validate_skill_md" /\ out # None /\ out[1].exc = "" /\ out[1].ok = 1) =>
    \A i \in 1..NSections : H1Line[i] \in Range(arg)

\* the frontmatter block of a guide document: the lines between its first
\* line "---" and the next line "---"
FrontmatterLines(content) ==
  IF FrontmatterMatch(content) = None THEN {} ELSE Range(FrontmatterMatch(content)[1])

\* C12: validate_skill_md accepts a guide document only if it opens with a
\* frontmatter block between two "---" lines that holds a key:value line for
\* each of the keys name, description, license, context and metadata; a
\* document whose frontmatter has no line with one of the keys fails with a
\* diagnostic that mentions the key.
C12_FrontmatterHasEveryKey ==
  (fn = "validate_skill_md" /\ out # None /\ out[1].exc = "") =>
    LET lacking == { k \in 1..NKeys : KeyLine[k] \notin FrontmatterLines(arg) }
    IN /\ out[1].ok = 1 =>
            /\ arg # << >> /\ arg[1] = Dash
            /\ lacking = {}
       /\ (FrontmatterMatch(arg) # None /\ lacking # {}) =>
            /\ out[1].ok = 0
            /\ \E k \in lacking : REQUIRED_FRONTMATTER_KEYS[k] \in Range(out[1].err[1])

\* a text without any code fence line
Unfenced(c) == Range(c) \cap FenceLines = {}

\* the code text c inside a single python fence
Fenced(c) == <<FenceOpen>> \o c \o <<Fence>>

\* C13: code in a single outer python fence and the same code without the
\* fence parse alike: parse_mcpcode returns the same result for both, and
\* parse_skill extracts the same example script from both.
C13_FencedAndUnfencedAlike ==
  /\ (fn = "parse_mcpcode" /\ out # None /\ Unfenced(arg)) =>
       out[1] = parse_mcpcode(Fenced(arg))
  /\ (fn = "extract_skill" /\ out # None /\ arg # << >> /\ arg[1] = EX
        /\ Unfenced(Tail(arg))) =>
       out[1] = extract_skill(<<EX>> \o Fenced(Tail(arg)))

\* the delimiter of each artifact
Delimiter == [skill_md |-> SK, reference_md |-> RF, example_script |-> EX]

\* C14: no artifact that parse_skill extracts holds the delimiter of another
\* artifact (nor, then, the text that follows it), whichever delimiters the
\* completion has.
C14_NoForeignDelimiter ==
  (fn = "extract_skill" /\ out # None) =>
    \A a \in ArtifactNames : \A b \in ArtifactNames \ {a} :
       Delimiter[b] \notin Range(out[1][a])

\* the language parser reports a syntax error in code
SyntaxErrorIn(code) == ast_parse(code).exc = "SyntaxError"

\* the first line of code that the grammar rejects
FirstRejected(code) ==
  LET bad == { i \in DOMAIN code : code[i] \notin PyValidLines }
  IN CHOOSE i \in bad : \A j \in bad : i <= j

\* the diagnostic err quotes the parser's message on code in full, and with
\* it the number of the first rejected line (the parser reports a line for
\* every syntax error but a null byte in the source)
QuotesParser(err, code) ==
  /\ Contains(err, ast_parse(code).msg)
  /\ PyNul \notin Range(code) => LineNo[FirstRejected(code)] \in Range(err)

\* C15: a source module or a non-empty example script with a syntax error
\* fails validation, the diagnostic quotes the parser's message with the
\* line number it reports, and the offending code is kept in the result.
C15_SyntaxErrorQuotedAndCodeKept ==
  /\ (fn = "validate_example_script" /\ out # None /\ ~IsBlank(arg)
        /\ SyntaxErrorIn(arg)) =>
       /\ out[1].exc = "" /\ out[1].ok = 0
       /\ QuotesParser(out[1].err[1], arg)
  /\ (fn = "parse_mcpcode" /\ out # None /\ FirstCodeBlock(arg) # None) =>
       LET code == FirstCodeBlock(arg)[1]
       IN SyntaxErrorIn(code) =>
            /\ out[1].exc = "" /\ out[1].ok = 0
            /\ QuotesParser(out[1].err[1], code)
            /\ out[1].contents = Some(code)
  /\ (fn = "parse_skill" /\ out # None) =>
       LET c == extract_skill(arg)
       IN (~IsBlank(c.example_script) /\ SyntaxErrorIn(c.example_script)) =>
            /\ out[1].exc = "" /\ out[1].ok = 0
            /\ out[1].contents = Some(c)
            /\ (validate_skill_md(c.skill_md).ok = 1
                  /\ validate_reference_md(c.reference_md).ok = 1) =>
                 QuotesParser(out[1].err[1], c.example_script)

\* parse_mcpcode on a module whose second line has an unmatched bracket
C15_Witness ==
  /\ fn = "parse_mcpcode"
  /\ arg = <<FenceOpen, PyTool, PyBad, Fence>>
  /\ out # None
  /\ out[1].ok = 0
  /\ LineNo[2] \in Range(out[1].err[1])
  /\ out[1].contents = Some(<<PyTool, PyBad>>)

\* the diagnostic of parse_mcpcode that names the missing marker
MissingMarker == "Code is missing the @mcp.tool() decorator"

\* C16: a source module passes validation exactly when it is non-empty, is
\* syntactically valid and holds the marker "@mcp.tool"; a valid module
\* without the marker fails with a diagnostic that names the marker, and an
\* empty module never passes.
C16_PassesIffValidAndMarked ==
  (fn = "parse_mcpcode" /\ out # None) =>
    LET found == FirstCodeBlock(arg) # None
        code == IF found THEN FirstCodeBlock(arg)[1] ELSE << >>
        valid == ast_parse(code).exc = ""
        marked == PyTool \in Range(code)
    IN /\ (out[1].exc = "" /\ out[1].ok = 1)
            <=> (found /\ code # << >> /\ valid /\ marked)
       /\ (found /\ valid /\ ~marked) =>
            /\ out[1].exc = "" /\ out[1].ok = 0
            /\ out[1].err = Some(<<MissingMarker>>)
       /\ code = << >> => (out[1].exc = "" /\ out[1].ok = 0)

\* parse_mcpcode on a valid module without the marker
C16_Witness ==
  /\ fn = "parse_mcpcode"
  /\ out # None
  /\ arg = <<FenceOpen, PyOk, WS, Fence>>
  /\ out[1].ok = 0
  /\ out[1].err = Some(<<MissingMarker>>)
  /\ out[1].contents = Some(<<PyOk>>)

----------------------------------------------------------------------------
(* Further properties of the conversions (under Spec)                       *)

\* the diagnostic of the attempt blames the example script
BlamesExampleScript(r) ==
  r.err # None /\ Head(r.err[1]) = "Example script validation failed: "

\* C17: validate_example_script returns ok for the empty text and for text
\* of whitespace only; an attempt whose example script is empty never has a
\* verdict that blames the example script, whatever the guide and the
\* reference are, and with a valid guide and a valid reference the attempt is
\* ok and the loop exits.
C17_EmptyScriptIsValid ==
  /\ \A s \in SeqsUpTo({WS}, MaxLen) : validate_example_script(s) = Verdict(1, None)
  /\ (flavour = "skill" /\ pc \in {"loop", "returned", "done"}
        /\ result.contents # None
        /\ IsBlank(result.contents[1].example_script)) =>
       /\ ~BlamesExampleScript(result)
       /\ (validate_skill_md(result.contents[1].skill_md).ok = 1
             /\ validate_reference_md(result.contents[1].reference_md).ok = 1) =>
            /\ result.ok = 1
            /\ ~LoopContinues(result)

\* a conversion that is done with a valid guide, a valid reference and an
\* empty example script: two files are written, none for the script
C17_Witness ==
  /\ flavour = "skill"
  /\ pc = "done"
  /\ result.ok = 1
  /\ result.contents[1].example_script = << >>
  /\ files = { File("SKILL.md", ValidGuide),
               File("references/fastqc_reference.md", <<RefHead, Prose>>) }

----------------------------------------------------------------------------
(* Further properties of single calls (under SpecCalls)                     *)

\* of the lines of ReferenceLines, those that start with one or more '#' and
\* then whitespace: "# Parameters" and "## Overview"; "see # Overview" has
\* its '#' in the middle, and "#tag" has no whitespace after it
IsHeadingLine(line) == line \in {RefHead, DeepLine[1]}

\* C18: validate_reference_md returns ok exactly when the document is not
\* empty (nor whitespace only) and has a heading line; otherwise it fails and
\* the diagnostic says that the document is empty, or that it has no headers.
C18_ReferenceOkIffHeading ==
  (fn = "validate_reference_md" /\ out # None) =>
    LET nonempty == \E n \in DOMAIN arg : arg[n] # WS
        heading == \E n \in DOMAIN arg : IsHeadingLine(arg[n])
    IN /\ out[1].exc = ""
       /\ out[1].ok = 1 <=> (nonempty /\ heading)
       /\ ~nonempty => out[1].err = Some(<<"Reference document is empty">>)
       /\ (nonempty /\ ~heading) =>
            out[1].err = Some(<<"Reference document has no headers">>)

\* validate_reference_md on a document without a heading line that has a
\* '#' in two of its lines
C18_Witness ==
  /\ fn = "validate_reference_md"
  /\ arg = <<HashTag, WS, InlineLine[1]>>
  /\ out # None
  /\ out[1].ok = 0
  /\ out[1].err = Some(<<"Reference document has no headers">>)

\* content has a complete fenced code block: a line that opens a fence and,
\* below it, a line that closes it
HasFencedBlock(content) ==
  \E i \in DOMAIN content : \E j \in DOMAIN content :
     i < j /\ content[i] \in FenceLines /\ content[j] = Fence

\* C19: validate_skill_md accepts a guide document only if it has a complete
\* fenced code block; a guide that meets the other requirements and has none
\* fails with the diagnostic that it has no code blocks.
C19_FencedBlockRequired ==
  (fn = "validate_skill_md" /\ out # None /\ out[1].exc = "") =>
    /\ out[1].ok = 1 => HasFencedBlock(arg)
    /\ (/\ ~HasFencedBlock(arg)
        /\ ~IsBlank(arg)
        /\ FrontmatterMatch(arg) # None
        /\ \A k \in 1..NKeys : HasKey(FrontmatterMatch(arg)[1], k)
        /\ \A i \in 1..NSections : SectionFound(arg, i)) =>
         out[1].err = Some(<<"SKILL.md has no code blocks">>)

----------------------------------------------------------------------------
(* What the conversions write (under Spec)                                  *)

\* the files of a conversion that is done with result r
ArtifactFiles(r) ==
  IF flavour = "skill" THEN SkillFiles(r.contents[1])
  ELSE { File("app/fastqc_server.py", r.contents[1]) }

\* C20: no artifact file is written before the conversion is done: while it
\* generates, retries or has raised there is no file, and when it is done the
\* loop has exited with an ok verdict and the files are the artifacts of
\* that verdict.
C20_NoFileBeforeDone ==
  /\ pc # "done" => files = {}
  /\ pc = "done" =>
       /\ result.ok = 1
       /\ LatestParse = result
       /\ files = ArtifactFiles(result)

\* a conversion that is done after a failed attempt, with its files written
C20_Witness ==
  /\ pc = "done"
  /\ Len(diags) >= 2
  /\ diags[1] # None
  /\ files # {}

----------------------------------------------------------------------------
(* Exceptions and the order of steps (under Spec)                           *)

\* the requests sent so far
Requests == { i \in DOMAIN log : log[i].ev = "request" }

\* C21: an exception of the backend in any generation call aborts the
\* conversion: it leaves the loop uncaught, nothing is returned or written,
\* of this attempt or of an earlier one, and no step follows it: no further
\* request, no restart, no refinement.
C21_BackendExceptionAborts ==
  /\ [](exc = "APIError" =>
          /\ pc = "raised"
          /\ Last(log) = Aborted
          /\ returned = None
          /\ files = {})
  /\ [][exc = "APIError" => UNCHANGED vars]_vars

\* the backend raises on a repair prompt, after an attempt that had artifacts
C21_Witness ==
  /\ exc = "APIError"
  /\ pc = "raised"
  /\ request # None /\ request[1].method = "refine_after_feedback"
  /\ result.contents # None
  /\ Cardinality(Requests) = 2

----------------------------------------------------------------------------
(* Further properties of single calls (under SpecCalls)                     *)

\* the part of a diagnostic of parse_skill that names the failing artifact
ArtifactHead ==
  [skill_md |-> "SKILL.md validation failed: ",
   reference_md |-> "Reference validation failed: ",
   example_script |-> "Example script validation failed: "]

\* the defects that the diagnostics of the three validators name
DefectTexts ==
  {"SKILL.md content is empty",
   "SKILL.md is missing YAML frontmatter (--- delimiters)",
   "YAML frontmatter is missing required key: ",
   "SKILL.md is missing required section: '# ",
   "SKILL.md has no code blocks",
   "Reference document is empty",
   "Reference document has no headers",
   "Example script has SyntaxError: "}

\* the diagnostics of parse_mcpcode, by their first part: each names the code
\* and what is wrong with it
McpDefectTexts ==
  {"There is no python code found in the gpt_response",
   "Code is not working with the following SyntaxError: ",
   "Code is missing the @mcp.tool() decorator"}

\* C22: in every result that parse_skill or parse_mcpcode returns, ok is 0
\* exactly when the diagnostic is a non-empty text, a passing result has no
\* diagnostic, and the diagnostic of a failing result names the failing
\* artifact and the defect found.
C22_DiagnosticIffFailing ==
  (fn \in {"parse_skill", "parse_mcpcode"} /\ out # None /\ out[1].exc = "") =>
    LET r == out[1]
    IN /\ r.ok \in {0, 1}
       /\ r.ok = 0 <=> (r.err # None /\ r.err[1] # << >>)
       /\ r.ok = 1 => r.err = None
       /\ (r.ok = 0 /\ fn = "parse_skill") =>
            /\ Len(r.err[1]) >= 2
            /\ \E a \in ArtifactNames : r.err[1][1] = ArtifactHead[a]
            /\ r.err[1][2] \in DefectTexts
       /\ (r.ok = 0 /\ fn = "parse_mcpcode") => r.err[1][1] \in McpDefectTexts

\* parse_skill returns a failing result that blames the reference document
C22_Witness ==
  /\ fn = "parse_skill"
  /\ out # None
  /\ out[1].exc = ""
  /\ out[1].ok = 0
  /\ out[1].err = Some(<<"Reference validation failed: ",
                         "Reference document has no headers">>)

----------------------------------------------------------------------------
(* Further properties of the conversions (under Spec)                       *)

\* the paths of the files written
Paths == { f.path : f \in files }

\* C23, as amended: after a successful three-artifact conversion SKILL.md
\* and references/<tool>_reference.md are written with the guide and the
\* reference, and scripts/<tool>_example.py is written, with the script,
\* exactly when the example script has a character that is not whitespace;
\* an empty script and a script of whitespace only produce no file.
C23_FilesOfDoneSkill ==
  (flavour = "skill" /\ pc = "done") =>
    LET c == returned[1]
    IN /\ File("SKILL.md", c.skill_md) \in files
       /\ File("references/fastqc_reference.md", c.reference_md) \in files
       /\ "scripts/fastqc_example.py" \in Paths <=> ~IsBlank(c.example_script)
       /\ "scripts/fastqc_example.py" \in Paths =>
            File("scripts/fastqc_example.py", c.example_script) \in files
       /\ Cardinality(files) = Cardinality(Paths)

\* C23, as claimed: the example script file is written exactly when the
\* example-script artifact is not the empty text.
C23_AsClaimed ==
  (flavour = "skill" /\ pc = "done") =>
    LET c == returned[1]
    IN /\ File("SKILL.md", c.skill_md) \in files
       /\ File("references/fastqc_reference.md", c.reference_md) \in files
       /\ "scripts/fastqc_example.py" \in Paths <=> c.example_script # << >>

\* a conversion that is done with an example script of whitespace only,
\* taken from a code fence: no script file is written
C23_Witness ==
  /\ flavour = "skill"
  /\ pc = "done"
  /\ returned[1].example_script = <<WS>>
  /\ Paths = {"SKILL.md", "references/fastqc_reference.md"}

\* the requests sent so far that carry an initial prompt
InitialRequests == { i \in Requests : log[i].method # "refine_after_feedback" }

\* C24: the documentation text is obtained once per conversion: every
\* initial prompt of one conversion, the first and that of every restart,
\* embeds the same documentation text.
C24_DocumentationObtainedOnce ==
  \A i \in InitialRequests : \A j \in InitialRequests : log[i].docs = log[j].docs

----------------------------------------------------------------------------
(* Termination (under FairSpec)                                             *)

----------------------------------------------------------------------------
(* The order of the steps of one conversion (under Spec)                    *)

RepairRequests == { i \in Requests : log[i].method = "refine_after_feedback" }

\* C26: the first backend request is the initial prompt; a repair prompt is
\* sent only after a completion has been received, parsed and has failed
\* validation; between two consecutive requests there is exactly one
\* response and one verdict on it, in this order; no verdict is without the
\* response before it, and no response without the request before it.
C26_RequestResponseVerdict ==
  /\ log # << >> => 1 \in InitialRequests
  /\ \A i \in Requests :
       i > 1 => /\ i >= 4
                /\ log[i - 1] = Judged(0)
                /\ log[i - 2] = Received
                /\ log[i - 3].ev = "request"
  /\ \A i \in RepairRequests : \E j \in 1..(i - 1) : log[j] = Judged(0)
  /\ \A i \in DOMAIN log :
       /\ log[i].ev = "verdict" => i > 1 /\ log[i - 1] = Received
       /\ log[i].ev = "response" => i > 1 /\ log[i - 1].ev = "request"

\* a conversion that has sent a repair prompt and, later, an initial prompt
\* again
C26_Witness ==
  \E i \in RepairRequests : \E j \in InitialRequests : 1 < i /\ i < j

----------------------------------------------------------------------------
(* Prose around the delimiters (under SpecCalls)                            *)

\* the artifacts a call of extract_skill or parse_skill has extracted
Extracted == IF fn = "extract_skill" THEN out[1] ELSE out[1].contents[1]

\* the text after the delimiter of the example script, trimmed
AfterScriptDelimiter(s) == Strip(Between(s, EX, {})[1])

\* t without the code fence that encloses the whole of it, if one does and
\* has a line in it
OuterFenceRemoved(t) ==
  IF Len(t) >= 3 /\ t[1] = FenceOpen /\ t[Len(t)] \in FenceLines
    THEN Slice(t, 2, Len(t) - 1)
    ELSE t

\* C27: prose without a delimiter put before a completion leaves the
\* extracted artifacts as they are, and the example script is the whole text
\* after its delimiter, less one enclosing code fence (compared up to
\* leading and trailing whitespace).
C27_StrayProseAbsorbed ==
  (/\ fn \in {"extract_skill", "parse_skill"}
   /\ out # None
   /\ fn = "parse_skill" => out[1].exc = "") =>
    /\ extract_skill(<<Prose>> \o arg) = Extracted
    /\ Between(arg, EX, {}) # None =>
         Strip(Extracted.example_script)
           = Strip(OuterFenceRemoved(AfterScriptDelimiter(arg)))

----------------------------------------------------------------------------
(* The block of the repair prompt, parsed again (under SpecCalls)           *)

\* C28: parse_skill, given the block refine_after_feedback builds from
\* artifacts that are trimmed and hold neither a delimiter nor a code fence,
\* returns these artifacts.
C28_ExistingBlockRoundTrip ==
  (fn = "parse_skill" /\ out # None) =>
    \A A \in TrimmedArtifactSets :
      arg = existing_block(A) => out[1].exc = "" /\ out[1].contents = Some(A)

----------------------------------------------------------------------------
(* Which defect of a guide document is reported (under SpecCalls)           *)

\* the checks of a guide document, numbered in the order of the claim:
\* 1 the content is empty, 2 there is no frontmatter, then one per
\* frontmatter key, one per heading, and last the code block
NChecks == 2 + NKeys + NSections + 1

CheckFails(content, d) ==
  IF d = 1 THEN IsBlank(content)
  ELSE IF d = 2 THEN FrontmatterMatch(content) = None
  ELSE IF d <= 2 + NKeys
    THEN \/ FrontmatterMatch(content) = None
         \/ ~HasKey(FrontmatterMatch(content)[1], d - 2)
  ELSE IF d <= 2 + NKeys + NSections
    THEN ~SectionFound(content, d - 2 - NKeys)
  ELSE Range(content) \cap FenceLines = {}

CheckMessage(d) ==
  IF d = 1 THEN <<"SKILL.md content is empty">>
  ELSE IF d = 2 THEN <<"SKILL.md is missing YAML frontmatter (--- delimiters)">>
  ELSE IF d <= 2 + NKeys
    THEN <<"YAML frontmatter is missing required key: ",
           REQUIRED_FRONTMATTER_KEYS[d - 2]>>
  ELSE IF d <= 2 + NKeys + NSections
    THEN <<"SKILL.md is missing required section: '# ",
           REQUIRED_SECTIONS[d - 2 - NKeys], "'">>
  ELSE <<"SKILL.md has no code blocks">>

FailingChecks(content) == { d \in 1..NChecks : CheckFails(content, d) }

\* C29: validate_skill_md reports the first check that fails, in the order
\* empty content, frontmatter, the keys in their order, the headings in
\* their order, code block, and nothing of the checks after it; it passes a
\* document that fails none.
C29_FirstDefectOnly ==
  (fn = "validate_skill_md" /\ out # None) =>
    LET failing == FailingChecks(arg)
    IN IF failing = {} THEN out[1] = Verdict(1, None)
       ELSE out[1] = Verdict(0, Some(CheckMessage(FirstMissing(failing))))

\* a guide document without one of its keys and without one of its headings
\* has been validated, and the diagnostic names the key
C29_Witness ==
  /\ fn = "validate_skill_md"
  /\ out # None
  /\ \E k \in 1..NKeys : \E i \in 1..NSections :
       /\ FailingChecks(arg) = {2 + k, 2 + NKeys + i}
       /\ out[1].err = Some(CheckMessage(2 + k))

----------------------------------------------------------------------------
(* A conversion without a help document (under Spec)                        *)

\* the initial requests whose extraction has returned None
RequestsWithoutDocument == { i \in InitialRequests : log[i].docs = Some(None) }

\* C30: an extraction that returns None does not abort the conversion.  The
\* first step of a conversion always sends an initial prompt; no exception
\* other than those of the backend and of the parser ever leaves the
\* conversion; and while the initial request made without a document is with
\* the backend, its prompt is the initial prompt with None rendered in the
\* place of the document.
C30_NoDocumentStillConverts ==
  /\ [][pc = "start" =>
          /\ pc' = "generating"
          /\ request' # None
          /\ log' = <<Sent(request'[1].method, log'[1].docs)>>
          /\ request'[1].method # "refine_after_feedback"]_vars
  /\ [](exc \in {"", "APIError", "UnicodeEncodeError"})
  /\ [](\A i \in RequestsWithoutDocument :
          i = Len(log) =>
            /\ pc = "generating"
            /\ request # None
            /\ request[1].prompt
                 \in { skill_generate_prompt(tool_name, None),
                       mcp_generate_prompt(tool_name, None) })

\* a conversion whose first extraction returned None has gone through a
\* failed attempt and a retry, and is done
C30_Witness ==
  /\ pc = "done"
  /\ 1 \in RequestsWithoutDocument
  /\ Cardinality(Requests) >= 2
====
